---- MODULE Spec2Model ----
(***************************************************************************)
(* Model of the agent orchestration loop of slack-mcp-client:              *)
(*   - AgentManger.process_query and its helpers                           *)
(*     (src/src/mcp_client/agent_manager_interface.py), variable inv;      *)
(*   - process_query_with_server of the Anthropic and Gemini adapters, as  *)
(*     called by MCPClient.process_query                                   *)
(*     (src/src/mcp_client/agent_manager.py, client.py), variable ws;      *)
(*   - call_tool of a tool server session, with its retries, variable ct;  *)
(*   - MCPClient construction and ServerConnectionManager                  *)
(*     (src/src/mcp_client/client.py, server_manager.py), variable reg.    *)
(* A Python str is modelled as a sequence of atoms: "Hello" is <<"Hello">>,*)
(* "" is <<>> and "Hello\nWorld" is <<"Hello", "\n", "World">>.            *)
(***************************************************************************)
EXTENDS Integers, Sequences, FiniteSets, TLC

VARIABLES inv, ws, ct, reg, env, fq, sl

vars == <<inv, ws, ct, reg, env, fq, sl>>

(* ----------------------------------------------------------------------- *)
(* Program constants and the inputs of the model                           *)
(* ----------------------------------------------------------------------- *)

\* AgentManger.MAX_DEPTH
MAX_DEPTH == 5

\* number of process_query invocations that may be in flight at once
NumProcs == 2

\* number of servers in the `servers` list
NumServers == 2

Procs == 1..NumProcs

\* the `servers` list handed to every process_query, in iteration order
Servers == [i \in 1..NumServers |-> <<"A", "B", "C", "D">>[i]]

\* tool names a server may list
ToolNames == {"lookup", "search"}

\* the user query of each invocation, as a str
Query(p) == <<(<<"q1", "q2", "q3", "q4">>)[p]>>

\* parts of an assistant response: a text part and a tool-call directive
Text(s) == [type |-> "text", text |-> s]
ToolUse(n) == [type |-> "tool_use", name |-> n]

\* part lists a provider answers with
PartLists ==
    { <<>>,
      <<Text("Hello")>>,
      <<Text("World")>>,
      <<Text("Hello"), ToolUse("lookup")>>,
      <<ToolUse("lookup"), Text("World")>>,
      <<ToolUse("lookup"), ToolUse("search")>>,
      <<ToolUse("search")>> }

\* (has_tool_call, assistant_parts) pairs _generate_response may return
Responses == [has_call : BOOLEAN, parts : PartLists]

\* the repertoire of the stub adapter shared by concurrent invocations
StubResponses ==
    { [has_call |-> FALSE, parts |-> <<Text("Hello")>>],
      [has_call |-> TRUE,  parts |-> <<Text("Hello"), ToolUse("lookup")>>],
      [has_call |-> TRUE,  parts |-> <<Text("World")>>] }

(* ----------------------------------------------------------------------- *)
(* Pure helpers                                                            *)
(* ----------------------------------------------------------------------- *)

\* "\n".join(texts)
RECURSIVE JoinNewline(_)
JoinNewline(texts) ==
    IF Len(texts) = 0 THEN <<>>
    ELSE IF Len(texts) = 1 THEN texts[1]
    ELSE texts[1] \o <<"\n">> \o JoinNewline(Tail(texts))

\* _part_to_text: the text of a text part, "" for every other part
_part_to_text(part) ==
    IF part.type = "text" THEN <<part.text>> ELSE <<>>

\* the all_texts list built by _flatten_assistant_text: one entry per part of
\* every assistant message, in order
RECURSIVE AllTexts(_)
AllTexts(messages) ==
    IF Len(messages) = 0 THEN <<>>
    ELSE LET m == messages[1]
         IN  (IF m.role = "assistant"
              THEN [i \in 1..Len(m.content) |-> _part_to_text(m.content[i])]
              ELSE <<>>) \o AllTexts(Tail(messages))

_flatten_assistant_text(messages) == JoinNewline(AllTexts(messages))

\* _extract_tool_calls: every tool-call directive of the parts, in order; the
\* id of a call is the position of its part in the response
RECURSIVE ExtractFrom(_, _)
ExtractFrom(parts, i) ==
    IF i > Len(parts) THEN <<>>
    ELSE (IF parts[i].type = "tool_use"
          THEN <<[name |-> parts[i].name, id |-> i]>>
          ELSE <<>>) \o ExtractFrom(parts, i + 1)

_extract_tool_calls(parts) == ExtractFrom(parts, 1)

UserMsg(query) == [role |-> "user", content |-> query]
AssistantMsg(parts) == [role |-> "assistant", content |-> parts]
ToolResultMsg(call) ==
    [role |-> "user",
     content |-> <<[type |-> "tool_result", tool_use_id |-> call.id,
                    name |-> call.name]>>]

\* only a turn without tool calls is appended
AppendAssistantTextOnly(messages, parts) ==
    IF _extract_tool_calls(parts) # <<>> THEN messages
    ELSE Append(messages, AssistantMsg(parts))

\* the assistant turn is not appended when the response is received
AppendAssistantSkipped(messages, parts) == messages

\* messages.append({"role": "assistant", "content": parts})
AppendAssistant(messages, parts) == Append(messages, AssistantMsg(parts))

\* _integrate_tool_result: append the result of `call` to the conversation
_integrate_tool_result(messages, call) == Append(messages, ToolResultMsg(call))

\* matches any server that lists some tool
ExposesAnyTool(tools, tool_name) == tools # {}

\* any(t.name == tool_name for t in tools)
Exposes(tools, tool_name) == tool_name \in tools

\* off by one in the round limit
LoopContinuesInclusive(depth) == depth <= MAX_DEPTH

\* while depth < self.MAX_DEPTH
LoopContinues(depth) == depth < MAX_DEPTH

\* the empty extraction is not treated as terminal
NoCallsIgnored(calls) == FALSE

\* if not calls
NoCalls(calls) == calls = <<>>

\* the has_tool_call flag is ignored
NoToolCallIgnored(has_call) == FALSE

\* if not has_call: break
NoToolCall(has_call) == ~has_call

(* ----------------------------------------------------------------------- *)
(* One process_query invocation                                            *)
(* ----------------------------------------------------------------------- *)

Idle ==
    [pc |-> "idle", messages |-> <<>>, depth |-> 0, calls |-> <<>>,
     call |-> 0, scan |-> 0, seen |-> <<>>, server |-> "none",
     hasCalls |-> <<>>, dispatched |-> 0, result |-> <<>>, err |-> "none"]

\* return self._flatten_assistant_text(messages)
Return(r) ==
    [r EXCEPT !.pc = "done", !.result = _flatten_assistant_text(r.messages),
              !.calls = <<>>, !.call = 0]

\* an exception leaves process_query
Raise(r, e) ==
    [r EXCEPT !.pc = "raised", !.err = e, !.scan = 0, !.server = "none"]

\* the test at the head of the while loop
LoopHead(r) ==
    IF LoopContinues(r.depth) THEN [r EXCEPT !.pc = "generate"] ELSE Return(r)

\* the unresolved call is skipped silently and the round is closed
NoServerSkipsCall(r) ==
    LoopHead([r EXCEPT !.depth = @ + 1, !.calls = <<>>, !.call = 0,
                       !.scan = 0, !.seen = <<>>])

\* raise RuntimeError(f"No server exposes tool '{tool_name}'")
NoServerExposes(r) == Raise(r, "NoServer")

\* the failed generation is issued again
GenerateRetried(r) == [r EXCEPT !.err = "GenerateError"]

\* an exception of `await self._generate_response(...)` is not caught
GenerateRaised(r) == Raise(r, "GenerateError")

\* the head of `for s in servers` in _find_server_for_tool
FindServer(r) ==
    IF Len(Servers) = 0 THEN NoServerExposes(r)
    ELSE [r EXCEPT !.pc = "find", !.scan = 1, !.seen = <<>>]

\* the head of `for call in calls`, then depth += 1
ForCalls(r) ==
    IF r.call > Len(r.calls)
    THEN LoopHead([r EXCEPT !.depth = @ + 1, !.calls = <<>>, !.call = 0])
    ELSE FindServer(r)

\* the code between the return of _generate_response and the next await
AfterGenerate(r, resp) ==
    LET r1 == [r EXCEPT !.messages = AppendAssistant(@, resp.parts),
                        !.hasCalls = Append(@, resp.has_call)]
    IN  IF NoToolCall(resp.has_call) THEN Return(r1)
        ELSE LET calls == _extract_tool_calls(resp.parts)
             IN  IF NoCalls(calls) THEN Return(r1)
                 ELSE ForCalls([r1 EXCEPT !.calls = calls, !.call = 1])

\* the code between the return of s.list_tools() and the next await
AfterListTools(r, tools) ==
    LET r1 == [r EXCEPT !.seen = Append(@, tools)]
    IN  IF Exposes(tools, r.calls[r.call].name)
        THEN [r1 EXCEPT !.pc = "call", !.server = Servers[r.scan],
                        !.dispatched = @ + 1]
        ELSE IF r.scan < Len(Servers)
             THEN [r1 EXCEPT !.scan = @ + 1]
             ELSE NoServerExposes(r1)

\* the code between the return of server.call_tool() and the next await
AfterCallTool(r) ==
    ForCalls([r EXCEPT
                !.messages = _integrate_tool_result(@, r.calls[r.call]),
                !.call = @ + 1, !.scan = 0, !.seen = <<>>,
                !.server = "none"])

\* one conversation list shared by every invocation of the agent
StoreShared(p, r) ==
    [q \in Procs |->
        IF q = p THEN r ELSE [inv[q] EXCEPT !.messages = r.messages]]

\* `messages` is a local variable of the invocation
Store(p, r) == [inv EXCEPT ![p] = r]

(* ----------------------------------------------------------------------- *)
(* call_tool(name, args, retries, delay) of a tool server session          *)
(* ----------------------------------------------------------------------- *)

\* largest `retries` argument of a call_tool invocation
MaxRetries == 3

\* errors the underlying tool call may fail with
ToolErrors == {"timeout", "closed", "refused"}

CtIdle ==
    [pc |-> "idle", name |-> "none", retries |-> 0, attempt |-> 0,
     errors |-> <<>>, warnings |-> 0, raised |-> "none"]

\* one more attempt than `retries` is made
CtRetryLeftInclusive(attempt, retries) == attempt <= retries

\* a failed attempt is followed by another one while attempts are left
CtRetryLeft(attempt, retries) == attempt < retries

\* a failed attempt: retry after the delay, or raise the last error
CtAfterFailure(r, e) ==
    LET r1 == [r EXCEPT !.errors = Append(@, e)]
    IN  IF CtRetryLeft(r.attempt, r.retries)
        THEN [r1 EXCEPT !.pc = "sleep", !.warnings = @ + 1]
        ELSE [r1 EXCEPT !.pc = "raised", !.raised = e]

\* call_tool is invoked: the first attempt is issued
CtCall ==
    /\ ct.pc = "idle"
    /\ \E name \in ToolNames, retries \in 1..MaxRetries :
          ct' = [ct EXCEPT !.pc = "attempt", !.name = name,
                           !.retries = retries, !.attempt = 1]
    /\ UNCHANGED <<inv, ws, reg, env, fq, sl>>

\* the underlying call succeeds: its result is returned
CtAttemptSucceeds ==
    /\ ct.pc = "attempt"
    /\ ct' = [ct EXCEPT !.pc = "returned"]
    /\ UNCHANGED <<inv, ws, reg, env, fq, sl>>

\* the underlying call fails
CtAttemptFails ==
    /\ ct.pc = "attempt"
    /\ \E e \in ToolErrors : ct' = CtAfterFailure(ct, e)
    /\ UNCHANGED <<inv, ws, reg, env, fq, sl>>

\* the fixed delay has passed: the next attempt is issued
CtSleepEnds ==
    /\ ct.pc = "sleep"
    /\ ct' = [ct EXCEPT !.pc = "attempt", !.attempt = @ + 1]
    /\ UNCHANGED <<inv, ws, reg, env, fq, sl>>

(* ----------------------------------------------------------------------- *)
(* MCPClient construction and ServerConnectionManager                      *)
(* ----------------------------------------------------------------------- *)

\* number of servers of a configuration file
NumConfigured == 2

\* cap on the connect_to_server_from_config calls made outside initialize()
MaxConnects == 1

\* cap on the cleanup() calls
MaxCleanups == 2

\* provider names handed to MCPClient / AgentManager.create
ProviderNames == {"anthropic", "Anthropic", "gemini", "openai", "OpenAI", "llama"}

\* provider.lower()
Lower(provider) ==
    IF provider = "Anthropic" THEN "anthropic"
    ELSE IF provider = "OpenAI" THEN "openai"
    ELSE provider

\* "transport" values of a server entry; "absent" is an entry without the key
Transports == {"stdio", "http", "sse", "absent"}

\* the names of the configured servers, in the order of the file
ConfigName(i) == <<"A", "B", "C", "D">>[i]

\* the "keywords" list of a configured server; <<>> is an entry without the key
ConfigKeywords(name) ==
    IF name = "A" THEN <<"alpha", "lookup">> ELSE <<>>

\* the files config_path may point to: a valid mapping name -> entry, a file
\* that is not JSON, a file that cannot be read, a path that does not exist,
\* and config_path = None
ConfigFiles ==
    {[kind |-> "valid",
      entries |-> [i \in 1..n |-> [name |-> ConfigName(i), transport |-> t[i],
                                   keywords |-> ConfigKeywords(ConfigName(i))]]] :
        n \in 0..NumConfigured, t \in [1..NumConfigured -> Transports]}
    \cup {[kind |-> k, entries |-> <<>>] :
            k \in {"bad_json", "unreadable", "missing", "none"}}

\* where connecting a stdio server may fail: spawning the process
\* (stdio_client), entering the ClientSession, session.initialize(),
\* session.list_tools()
FailPoints == {"none", "spawn", "session", "initialize", "list_tools"}

RegFresh ==
    [client |-> "none", provider |-> "none", agent |-> "none",
     ctor_error |-> "none", config_file |-> "none", server_config |-> <<>>,
     server_keywords |-> <<>>, servers |-> <<>>,
     resources |-> <<>>, exit_stack |-> <<>>, released |-> <<>>,
     attempts |-> <<>>, initialized |-> FALSE, connects |-> 0,
     cleanups |-> 0, raised_at |-> 0, error |-> "none"]

\* OpenAIAgentManager.__init__
OpenAIAgentManagerInit ==
    [agent |-> "none", error |-> "NotImplementedError"]

\* an unknown provider silently gets the default adapter
CreateFallback(provider) ==
    LET p == Lower(provider)
    IN  IF p = "openai" THEN OpenAIAgentManagerInit
        ELSE IF p = "gemini"
             THEN [agent |-> "GeminiAgentManager", error |-> "none"]
             ELSE [agent |-> "AnthropicAgentManager", error |-> "none"]

\* AgentManager.create(provider)
Create(provider) ==
    LET p == Lower(provider)
    IN  IF p = "anthropic"
        THEN [agent |-> "AnthropicAgentManager", error |-> "none"]
        ELSE IF p = "openai" THEN OpenAIAgentManagerInit
        ELSE IF p = "gemini"
             THEN [agent |-> "GeminiAgentManager", error |-> "none"]
             ELSE [agent |-> "none", error |-> "ValueError"]

\* self.server_keywords is a dict, kept as the list of its items in insertion
\* order; the keywords stored for a name, <<>> when the name has no item
KeywordsOf(server_keywords, name) ==
    IF \E i \in 1..Len(server_keywords) : server_keywords[i].name = name
    THEN server_keywords[CHOOSE i \in 1..Len(server_keywords) :
                            server_keywords[i].name = name].keywords
    ELSE <<>>

HasKeywords(server_keywords, name) ==
    \E i \in 1..Len(server_keywords) : server_keywords[i].name = name

\* self.server_keywords[name] = keywords
PutKeywords(server_keywords, name, keywords) ==
    IF HasKeywords(server_keywords, name)
    THEN [i \in 1..Len(server_keywords) |->
            IF server_keywords[i].name = name
            THEN [name |-> name, keywords |-> keywords]
            ELSE server_keywords[i]]
    ELSE Append(server_keywords, [name |-> name, keywords |-> keywords])

\* the loop of load_server_config over the entries with a "keywords" key
RECURSIVE KeywordsOfConfig(_)
KeywordsOfConfig(entries) ==
    IF entries = <<>> THEN <<>>
    ELSE LET first == entries[1]
             rest == KeywordsOfConfig(Tail(entries))
         IN  IF first.keywords # <<>>
             THEN <<[name |-> first.name, keywords |-> first.keywords]>> \o rest
             ELSE rest

\* list(dict.fromkeys(keywords)): duplicates removed, first occurrences kept
RECURSIVE Dedup(_)
Dedup(keywords) ==
    IF keywords = <<>> THEN <<>>
    ELSE LET init == Dedup(SubSeq(keywords, 1, Len(keywords) - 1))
             last == keywords[Len(keywords)]
         IN  IF \E i \in 1..Len(init) : init[i] = last THEN init
             ELSE Append(init, last)

\* server_name.lower()
LowerName(name) ==
    IF name = "A" THEN "a" ELSE IF name = "B" THEN "b"
    ELSE IF name = "C" THEN "c" ELSE "d"

\* the names of the tools a server lists
ToolsOf(name) == IF name = "A" THEN <<"lookup">> ELSE <<"search">>

\* _generate_keywords_from_tools for tools with one-word lower-case names
\* and no description
_generate_keywords_from_tools(name, tools) ==
    Dedup(<<LowerName(name)>> \o tools \o tools \o tools)

\* the keywords stored by a connect: the generated ones, then the configured
MergedKeywords(server_keywords, name) ==
    LET generated == _generate_keywords_from_tools(name, ToolsOf(name))
    IN  IF HasKeywords(server_keywords, name)
        THEN Dedup(generated \o KeywordsOf(server_keywords, name))
        ELSE generated

\* ServerConnectionManager.load_server_config: an exception of open() or
\* json.load() is logged and swallowed
load_server_config(r, file) ==
    IF file.kind = "valid"
    THEN [r EXCEPT !.server_config = file.entries,
                   !.server_keywords = KeywordsOfConfig(file.entries)]
    ELSE r

\* if config_path and os.path.exists(config_path)
ConfigIsLoaded(file) == file.kind \notin {"none", "missing"}

\* MCPClient.__init__
MCPClientInit(r, provider, file) ==
    LET made == Create(provider)
    IN  IF made.error # "none"
        THEN [r EXCEPT !.client = "failed", !.provider = provider,
                       !.ctor_error = made.error]
        ELSE LET r1 == [r EXCEPT !.client = "built", !.provider = provider,
                                 !.agent = made.agent,
                                 !.config_file = file.kind]
             IN  IF ConfigIsLoaded(file) THEN load_server_config(r1, file)
                 ELSE r1

\* exit_stack.enter_async_context(...): the resource is acquired and its
\* release is pushed on the exit stack
Enter(r, kind, name) ==
    [r EXCEPT !.resources = Append(@, [kind |-> kind, server |-> name]),
              !.exit_stack = Append(@, Len(r.resources) + 1)]

\* the already-connected test is skipped
InServersIgnored(r, name) == FALSE

InServers(r, name) == \E i \in 1..Len(r.servers) : r.servers[i] = name

\* connect_to_stdio_server; the result carries the outcome of the call
connect_to_stdio_server(r, name, failAt) ==
    IF InServers(r, name) THEN [reg |-> r, outcome |-> "already"]
    ELSE IF failAt = "spawn" THEN [reg |-> r, outcome |-> "ConnectError"]
    ELSE LET r1 == Enter(r, "transport", name)
         IN  IF failAt = "session"
             THEN [reg |-> r1, outcome |-> "ConnectError"]
             ELSE LET r2 == Enter(r1, "session", name)
                  IN  IF failAt \in {"initialize", "list_tools"}
                      THEN [reg |-> r2, outcome |-> "ConnectError"]
                      ELSE [reg |-> [r2 EXCEPT
                                       !.server_keywords =
                                          PutKeywords(@, name,
                                             MergedKeywords(@, name)),
                                       !.servers = Append(@, name)],
                            outcome |-> "connected"]

\* connect_to_http_server
connect_to_http_server(r, name) ==
    [reg |-> r, outcome |-> "NotImplementedError"]

\* every transport but "http" is connected over stdio
UsesStdioUnlessHttp(transport) == transport # "http"

\* transport = server_config.get("transport", "stdio"); transport == "stdio"
UsesStdio(transport) == transport \in {"stdio", "absent"}

\* connect_to_server_from_config: the call is logged in attempts with its
\* outcome, the resources it acquired and whether it registered the server
connect_to_server_from_config(r, name, transport, failAt) ==
    LET res == IF UsesStdio(transport)
               THEN connect_to_stdio_server(r, name, failAt)
               ELSE IF transport = "http"
                    THEN connect_to_http_server(r, name)
                    ELSE [reg |-> r, outcome |-> "ValueError"]
    IN  [res.reg EXCEPT
           !.error = IF res.outcome \in {"connected", "already"}
                     THEN "none" ELSE res.outcome,
           !.attempts = Append(@,
              [name |-> name, transport |-> transport,
               outcome |-> res.outcome,
               acquired |-> Len(res.reg.resources) - Len(r.resources),
               registered |-> Len(res.reg.servers) > Len(r.servers)])]

\* only a failure of the stdio connection is caught
CaughtIfConnectError(error) == error = "ConnectError"

\* except Exception as e: self.logger.error(...)
Caught(error) == TRUE

\* the loop of initialize() from the i-th configured server on
RECURSIVE InitializeFrom(_, _, _)
InitializeFrom(r, i, fails) ==
    IF i > Len(r.server_config) THEN r
    ELSE LET entry == r.server_config[i]
             r1 == connect_to_server_from_config(r, entry.name,
                                                 entry.transport, fails[i])
         IN  IF r1.error # "none" /\ ~Caught(r1.error) THEN r1
             ELSE InitializeFrom([r1 EXCEPT !.error = "none"], i + 1, fails)

RECURSIVE Reverse(_)
Reverse(seq) ==
    IF Len(seq) = 0 THEN <<>>
    ELSE Append(Reverse(Tail(seq)), seq[1])

\* the teardown stops at the first one that raises
RECURSIVE TeardownsFailFast(_, _)
TeardownsFailFast(order, raising) ==
    IF Len(order) = 0 THEN <<>>
    ELSE IF order[1] \in raising THEN <<order[1]>>
    ELSE <<order[1]>> \o TeardownsFailFast(Tail(order), raising)

\* AsyncExitStack.aclose(): every exit callback runs, an exception of one of
\* them is kept and raised after the last one
TeardownsRun(order, raising) == order

\* the callbacks stay on the stack after they ran
StackKept(stack) == stack

\* AsyncExitStack.aclose() pops every callback it runs
StackAfterClose(stack) == <<>>

\* ServerConnectionManager.cleanup(); raised_at is the position, in the order
\* the teardowns ran, of the first one that raised
cleanup(r, raising) ==
    LET order == Reverse(r.exit_stack)
        ran == TeardownsRun(order, raising)
        bad == {i \in 1..Len(ran) : ran[i] \in raising}
    IN  [r EXCEPT
           !.released = @ \o ran,
           !.exit_stack = StackAfterClose(@),
           !.cleanups = @ + 1,
           !.raised_at = IF bad = {} THEN 0
                         ELSE CHOOSE i \in bad : \A j \in bad : i <= j,
           !.error = IF bad = {} THEN "none" ELSE "TeardownError"]

\* MCPClient(provider=..., config_path=...)
Construct ==
    /\ reg.client = "none"
    /\ \E provider \in ProviderNames, file \in ConfigFiles :
          reg' = MCPClientInit(reg, provider, file)
    /\ UNCHANGED <<inv, ws, ct, env, fq, sl>>

\* MCPClient.initialize() -> ServerConnectionManager.initialize()
Initialize ==
    /\ reg.client = "built"
    /\ ~reg.initialized
    /\ \E fails \in [1..Len(reg.server_config) -> FailPoints] :
          reg' = [InitializeFrom([reg EXCEPT !.error = "none"], 1, fails)
                     EXCEPT !.initialized = TRUE]
    /\ UNCHANGED <<inv, ws, ct, env, fq, sl>>

\* a caller connects one server with connect_to_server_from_config
Connect ==
    /\ reg.client = "built"
    /\ reg.connects < MaxConnects
    /\ \E i \in 1..NumConfigured, transport \in Transports,
          failAt \in FailPoints :
          reg' = [connect_to_server_from_config(reg, ConfigName(i),
                                                transport, failAt)
                     EXCEPT !.connects = @ + 1]
    /\ UNCHANGED <<inv, ws, ct, env, fq, sl>>

\* MCPClient.cleanup() -> ServerConnectionManager.cleanup()
Cleanup ==
    /\ reg.client = "built"
    /\ reg.cleanups < MaxCleanups
    /\ \E raising \in SUBSET {reg.exit_stack[i] : i \in 1..Len(reg.exit_stack)} :
          reg' = cleanup(reg, raising)
    /\ UNCHANGED <<inv, ws, ct, env, fq, sl>>

(* ----------------------------------------------------------------------- *)
(* ServerConnectionManager._process_env_variables                          *)
(* ----------------------------------------------------------------------- *)

\* longest configured env value, in characters
MaxValueLen == 4

\* characters of a configured env value
EnvChars == {"$", "{", "}", "A"}

\* str values of at most n characters
Strs(n) == UNION {[1..k -> EnvChars] : k \in 0..n}

Str(s) == [kind |-> "str", s |-> s]

\* a configured value: a str, or a JSON value of another type
EnvValues == {Str(s) : s \in Strs(MaxValueLen)} \cup {[kind |-> "int", s |-> <<>>]}

\* names of host environment variables
HostNames == {<<"A">>, <<"A", "A">>}

\* os.environ: the variables that are set, each with its value
HostEnvs ==
    UNION {[set -> {<<>>, <<"s", "e", "c">>}] : set \in SUBSET HostNames}

\* values of the second key of an env config
PathValues == {Str(<<"A">>), Str(<<"$", "A", "A">>), [kind |-> "int", s |-> <<>>]}

\* the `env` entry of a server config: absent (None) or a dict
EnvConfigs ==
    {[given |-> FALSE, map |-> <<>>], [given |-> TRUE, map |-> <<>>]}
    \cup {[given |-> TRUE, map |-> [k \in {"TOKEN"} |-> v]] : v \in EnvValues}
    \cup {[given |-> TRUE,
           map |-> [k \in {"TOKEN", "PATH"} |-> IF k = "TOKEN" THEN v ELSE w]] :
             v \in EnvValues, w \in PathValues}

EnvIdle ==
    [pc |-> "input", host |-> <<>>, config |-> [given |-> FALSE, map |-> <<>>],
     result |-> [given |-> FALSE, map |-> <<>>], warnings |-> {}]

\* value.startswith(prefix)
StartsWith(value, prefix) ==
    /\ Len(value) >= Len(prefix)
    /\ SubSeq(value, 1, Len(prefix)) = prefix

\* every reference is read as $VAR
EnvVarNameNoBraces(value) == SubSeq(value, 2, Len(value))

\* value[1:] if not value.startswith("${") else value[2:-1]
EnvVarName(value) ==
    IF ~StartsWith(value, <<"$", "{">>) THEN SubSeq(value, 2, Len(value))
    ELSE SubSeq(value, 3, Len(value) - 1)

\* the branch of the loop body taken for one value
EnvBranch(host, value) ==
    IF value.kind # "str" THEN "other"
    ELSE IF ~StartsWith(value.s, <<"$">>) THEN "literal"
    ELSE IF EnvVarName(value.s) \in DOMAIN host THEN "resolved"
    ELSE "fallback"

\* processed_env[key] for one value
ProcessedValue(host, value) ==
    IF EnvBranch(host, value) = "resolved"
    THEN Str(host[EnvVarName(value.s)])
    ELSE value

_process_env_variables(host, env_config) ==
    IF ~env_config.given
    THEN [result |-> env_config, warnings |-> {}]
    ELSE [result |->
             [given |-> TRUE,
              map |-> [key \in DOMAIN env_config.map |->
                          ProcessedValue(host, env_config.map[key])]],
          warnings |->
             {key \in DOMAIN env_config.map :
                EnvBranch(host, env_config.map[key]) = "fallback"}]

\* connect_to_server_from_config processes the env entry of a server config
ProcessEnv ==
    /\ env.pc = "input"
    /\ LET out == _process_env_variables(env.host, env.config)
       IN  env' = [env EXCEPT !.pc = "done", !.result = out.result,
                              !.warnings = out.warnings]
    /\ UNCHANGED <<inv, ws, ct, reg, fq, sl>>

(* ----------------------------------------------------------------------- *)
(* MCPClient.process_query (client.py): the routing of a query             *)
(* ----------------------------------------------------------------------- *)

\* cap on the process_query calls of the facade
MaxQueries == 1

\* a query, as the set of the keywords and tool indicators that are
\* substrings of query.lower(): "hello", "run it", "lookup x", "search",
\* "alpha lookup", "b"
Queries ==
    {{}, {"run"}, {"lookup"}, {"a", "search"}, {"a", "alpha", "lookup"}, {"b"}}

\* the server_name argument; "None" is the default
ServerNameArgs == {"None", "A", "B", "C"}

\* the tool indicators of _query_requires_mcp that occur in Queries
ToolIndicators == {"run"}

FqIdle ==
    [calls |-> 0, query |-> {}, server_name |-> "None", route |-> "none",
     server |-> "none", available |-> <<>>, delegated |-> "none"]

\* all_keywords of _query_requires_mcp
RECURSIVE AllKeywords(_)
AllKeywords(server_keywords) ==
    IF server_keywords = <<>> THEN <<>>
    ELSE server_keywords[1].keywords \o AllKeywords(Tail(server_keywords))

_query_requires_mcp(r, query) ==
    LET all_keywords == AllKeywords(r.server_keywords)
    IN  IF all_keywords = <<>> THEN FALSE
        ELSE \/ \E i \in 1..Len(all_keywords) : all_keywords[i] \in query
             \/ \E indicator \in ToolIndicators : indicator \in query

\* match_count of _select_appropriate_server for one server
MatchCount(r, query, name) ==
    LET stored == KeywordsOf(r.server_keywords, name)
        keywords == IF stored = <<>> THEN <<LowerName(name)>> ELSE stored
    IN  Cardinality({i \in 1..Len(keywords) : keywords[i] \in query})

\* max(server_matches.items(), key=...)[0]: the first server, in the order
\* of server_names, with the largest match count; server_names[0] when no
\* server matches
_select_appropriate_server(r, query, server_names) ==
    LET count(i) == MatchCount(r, query, server_names[i])
        matched == {i \in 1..Len(server_names) : count(i) > 0}
    IN  IF matched = {} THEN server_names[1]
        ELSE server_names[CHOOSE i \in matched :
                            \A j \in matched :
                               count(j) < count(i) \/ (count(j) = count(i) /\ i <= j)]

\* get_server_names()
get_server_names(r) == r.servers

\* get_server_session(name) is not None
get_server_session(r, name) == InServers(r, name)

\* every query that does not require MCP is processed directly
ProcessedDirectlyIfNotRequired(server_names, server_name, requires) ==
    server_names = <<>> \/ ~requires

\* not server_names or (server_name is None and not _query_requires_mcp)
ProcessedDirectly(server_names, server_name, requires) ==
    server_names = <<>> \/ (server_name = "None" /\ ~requires)

\* MCPClient.process_query up to its return or its delegation
process_query(r, f, query, server_name) ==
    LET server_names == get_server_names(r)
        f1 == [f EXCEPT !.calls = @ + 1, !.query = query,
                        !.server_name = server_name, !.server = "none",
                        !.available = <<>>, !.delegated = "none"]
    IN  IF ProcessedDirectly(server_names, server_name,
                             _query_requires_mcp(r, query))
        THEN [f1 EXCEPT !.route = "without_mcp",
                        !.delegated = "process_query_without_tools"]
        ELSE LET name == IF server_name = "None"
                         THEN _select_appropriate_server(r, query, server_names)
                         ELSE server_name
             IN  IF ~(\E i \in 1..Len(server_names) : server_names[i] = name)
                 THEN [f1 EXCEPT !.route = "not_found", !.server = name,
                                 !.available = server_names]
                 ELSE IF ~get_server_session(r, name)
                 THEN [f1 EXCEPT !.route = "no_session", !.server = name]
                 ELSE [f1 EXCEPT !.route = "with_server", !.server = name,
                                 !.delegated = "process_query_with_server"]

\* a caller invokes MCPClient.process_query
ProcessQuery ==
    /\ reg.client = "built"
    /\ fq.calls < MaxQueries
    /\ \E query \in Queries, server_name \in ServerNameArgs :
          fq' = process_query(reg, fq, query, server_name)
    /\ UNCHANGED <<inv, ws, ct, reg, env, sl>>

(* ----------------------------------------------------------------------- *)
(* SlackEventHandler.handle_event and verify_slack_request                 *)
(* ----------------------------------------------------------------------- *)

\* 60 * 5: the age in seconds above which a request is refused
MaxAge == 300

\* int(time.time()) when the request is verified
CurrentTimestamp == 1000

\* config.SLACK_SIGNING_SECRET
SigningSecret == "secret"

\* request bodies: the three JSON event types with the events of a
\* callback, and a body that is not JSON
Bodies ==
    {"url_verification", "message", "bot_message", "app_mention",
     "reaction_added", "other_type", "not_json"}

\* "v0=" + HMAC-SHA256(secret, "v0:{timestamp}:{body}")
Signature(secret, timestamp, body) ==
    [v0 |-> TRUE, secret |-> secret, timestamp |-> timestamp, body |-> body]

\* X-Slack-Request-Timestamp values: decimal strings around the current
\* time, and a string that is not a number
TimestampHeaders ==
    {[numeric |-> TRUE, value |-> CurrentTimestamp + d] :
        d \in {0 - MaxAge - 1, 0 - MaxAge, 0, MaxAge, MaxAge + 1}}
    \cup {[numeric |-> FALSE, value |-> 0]}

\* X-Slack-Signature values for a request: the signature Slack computes,
\* one made with another secret, one of another body, and a string that is
\* no signature
SignatureHeaders(timestamp, body) ==
    {Signature(SigningSecret, timestamp, body),
     Signature("guess", timestamp, body),
     Signature(SigningSecret, timestamp, "replayed"),
     [v0 |-> FALSE, secret |-> "none", timestamp |-> timestamp, body |-> body]}

\* self.fast_agent: not set, set, set and raising in process_event
FastAgents == {"none", "ok", "raises"}

\* the requests handle_event may receive
Requests ==
    {[has_timestamp |-> ht, has_signature |-> hs, timestamp |-> t,
      signature |-> s, body |-> b] :
        ht \in BOOLEAN, hs \in BOOLEAN, t \in TimestampHeaders,
        b \in Bodies,
        s \in UNION {SignatureHeaders(t2, b2) :
                        t2 \in TimestampHeaders, b2 \in Bodies}}

SlIdle ==
    [pc |-> "idle", fast_agent |-> "none",
     request |-> [has_timestamp |-> FALSE, has_signature |-> FALSE,
                  timestamp |-> [numeric |-> FALSE, value |-> 0],
                  signature |-> [v0 |-> FALSE, secret |-> "none",
                                 timestamp |-> [numeric |-> FALSE, value |-> 0],
                                 body |-> "not_json"],
                  body |-> "not_json"],
     verified |-> "none", status |-> "none", detail |-> "none",
     reply |-> "none", agent_calls |-> 0, posts |-> 0]

\* abs(a - b)
Abs(n) == IF n < 0 THEN 0 - n ELSE n

\* no request is too old
TooOldNever(timestamp) == FALSE

\* abs(current_timestamp - int(timestamp)) > 60 * 5
TooOld(timestamp) == Abs(CurrentTimestamp - timestamp.value) > MaxAge

\* verify_slack_request: "True", "False", or "ValueError" when int(timestamp)
\* raises
verify_slack_request(request) ==
    IF ~request.has_timestamp \/ ~request.has_signature THEN "False"
    ELSE IF ~request.timestamp.numeric THEN "ValueError"
    ELSE IF TooOld(request.timestamp) THEN "False"
    ELSE IF request.signature
              = Signature(SigningSecret, request.timestamp, request.body)
         THEN "True" ELSE "False"

\* _process_message
_process_message(s, event) ==
    IF event = "bot_message"
    THEN [s EXCEPT !.status = "200", !.reply = "ignored"]
    ELSE IF s.fast_agent = "none"
    THEN [s EXCEPT !.status = "200", !.reply = "received"]
    ELSE [s EXCEPT !.status = "200", !.agent_calls = @ + 1,
                   !.reply = IF s.fast_agent = "ok" THEN "processed"
                             ELSE "error"]

\* _process_app_mention
_process_app_mention(s) ==
    IF s.fast_agent = "ok"
    THEN [s EXCEPT !.status = "200", !.agent_calls = @ + 1,
                   !.reply = "processed"]
    ELSE IF s.fast_agent = "raises"
    THEN [s EXCEPT !.status = "200", !.agent_calls = @ + 1,
                   !.posts = @ + 1, !.reply = "error"]
    ELSE [s EXCEPT !.status = "200", !.posts = @ + 1, !.reply = "responded"]

\* _process_event_callback
_process_event_callback(s, event) ==
    IF event \in {"message", "bot_message"} THEN _process_message(s, event)
    ELSE IF event = "app_mention" THEN _process_app_mention(s)
    ELSE [s EXCEPT !.status = "200", !.reply = "event_received"]

\* handle_event after `await request.body()`
handle_event(s) ==
    LET ok == verify_slack_request(s.request)
        s1 == [s EXCEPT !.pc = "done", !.verified = ok]
    IN  IF ok = "ValueError"
        THEN [s1 EXCEPT !.status = "ValueError"]
        ELSE IF ok = "False"
        THEN [s1 EXCEPT !.status = "401",
                        !.detail = "Invalid request signature"]
        ELSE IF s.request.body = "not_json"
        THEN [s1 EXCEPT !.status = "400", !.detail = "Invalid JSON"]
        ELSE IF s.request.body = "url_verification"
        THEN [s1 EXCEPT !.status = "200", !.reply = "challenge"]
        ELSE IF s.request.body = "other_type"
        THEN [s1 EXCEPT !.status = "200", !.reply = "received"]
        ELSE _process_event_callback(s1, s.request.body)

\* a request arrives: handle_event awaits request.body()
SlReceive ==
    /\ sl.pc = "idle"
    /\ \E request \in Requests, fast_agent \in FastAgents :
          sl' = [sl EXCEPT !.pc = "body", !.request = request,
                           !.fast_agent = fast_agent]
    /\ UNCHANGED <<inv, ws, ct, reg, env, fq>>

\* the body is read: the request is verified and the event handled
SlHandle ==
    /\ sl.pc = "body"
    /\ sl' = handle_event(sl)
    /\ UNCHANGED <<inv, ws, ct, reg, env, fq>>

(* ----------------------------------------------------------------------- *)
(* process_query_with_server (agent_manager.py), reached through           *)
(* MCPClient.process_query (client.py)                                     *)
(* ----------------------------------------------------------------------- *)

\* providers AgentManager.create builds an adapter for
Providers == {"anthropic", "gemini"}

\* cap on the generation calls of one process_query_with_server call
GenCap == 6

\* number of candidates of a Gemini response
MaxCandidates == 2

\* raw responses of the provider, as a sequence of candidates: Anthropic
\* answers with one content list, Gemini with response.candidates
RawResponses(provider) ==
    IF provider = "anthropic"
    THEN {<<content>> : content \in PartLists}
    ELSE UNION {[1..n -> PartLists] : n \in 0..MaxCandidates}

\* AnthropicAgentManager._process_query_with_tools: has_tool_call
AnthropicHasToolCall(response) ==
    \E i \in 1..Len(response[1]) : response[1][i].type = "tool_use"

\* AnthropicAgentManager._process_query_with_tools: assistant_message_content
AnthropicContent(response) == response[1]

\* candidate.content.parts[0] of a candidate without parts
GeminiIndexError(response) ==
    \E c \in 1..Len(response) : Len(response[c]) = 0

\* GeminiAgentManager._process_query_with_tools: has_tool_call
GeminiHasToolCall(response) ==
    \E c \in 1..Len(response) : response[c][1].type = "tool_use"

\* GeminiAgentManager._process_query_with_tools: assistant_message_content,
\* the parts of the last candidate that has parts
GeminiContent(response) ==
    LET full == {c \in 1..Len(response) : Len(response[c]) > 0}
    IN  IF full = {} THEN <<>>
        ELSE response[CHOOSE c \in full : \A d \in full : d <= c]

HasToolCall(provider, response) ==
    IF provider = "anthropic" THEN AnthropicHasToolCall(response)
    ELSE GeminiHasToolCall(response)

MessageContent(provider, response) ==
    IF provider = "anthropic" THEN AnthropicContent(response)
    ELSE GeminiContent(response)

\* f"[Calling tool {tool_name} with args {tool_args} on server '...']"
CallingTool(name) == <<"[Calling tool]", name>>

WSIdle(provider) ==
    [provider |-> provider, pc |-> "idle", messages |-> <<>>,
     final_text |-> <<>>, has_tool_call |-> FALSE, content |-> <<>>,
     response |-> <<>>, pos |-> 0, gens |-> 0, tool_calls |-> 0,
     everyTool |-> TRUE, result |-> <<>>, err |-> "none"]

\* return "\n".join(final_text)
WSReturn(r) ==
    [r EXCEPT !.pc = "done", !.result = JoinNewline(r.final_text), !.pos = 0]

WSRaise(r, e) == [r EXCEPT !.pc = "raised", !.err = e, !.pos = 0]

\* `for content in assistant_message_content` from part i on, up to the
\* next await; a for loop that ends while has_tool_call is set starts again
\* from the same state, without end
RECURSIVE WSScan(_, _)
WSScan(r, i) ==
    IF i > Len(r.content)
    THEN IF ~r.has_tool_call THEN WSReturn(r)
         ELSE [r EXCEPT !.pc = "spin", !.pos = 0]
    ELSE IF r.content[i].type = "tool_use"
         THEN [r EXCEPT !.pc = "call_tool", !.pos = i, !.tool_calls = @ + 1]
         ELSE IF r.provider = "anthropic"
              THEN WSScan([r EXCEPT !.final_text =
                                       Append(@, <<r.content[i].text>>)],
                          i + 1)
              ELSE WSScan(r, i + 1)

\* the code after _process_query_with_tools returns: the first response
\* enters the while loop, a later one breaks the for loop and is tested
WSAfterGenerate(r, response) ==
    LET r1 == [r EXCEPT
                 !.response = response,
                 !.has_tool_call = HasToolCall(r.provider, response),
                 !.content = MessageContent(r.provider, response),
                 !.gens = @ + 1,
                 !.everyTool = @ /\ \E c \in 1..Len(response) :
                                      \E i \in 1..Len(response[c]) :
                                         response[c][i].type = "tool_use"]
    IN  IF r.gens > 0 /\ ~r1.has_tool_call THEN WSReturn(r1)
        ELSE WSScan(r1, 1)

\* the messages appended after a tool call returned
WSToolMessages(r) ==
    LET part == r.content[r.pos]
    IN  <<[role |-> "assistant",
           content |-> IF r.provider = "anthropic" THEN r.content
                       ELSE <<"None">>],
          [role |-> "user",
           content |-> <<[type |-> "tool_result", tool_use_id |-> r.pos,
                          name |-> part.name]>>]>>

\* MCPClient.process_query hands the query to process_query_with_server,
\* which awaits session.list_tools()
WSStart ==
    /\ ws.pc = "idle"
    /\ ws' = [ws EXCEPT !.pc = "list_tools"]
    /\ UNCHANGED <<inv, ct, reg, env, fq, sl>>

\* session.list_tools() returns: the conversation is seeded
WSListTools ==
    /\ ws.pc = "list_tools"
    /\ ws' = [ws EXCEPT !.pc = "generate",
                         !.messages = IF ws.provider = "anthropic"
                                      THEN <<UserMsg(Query(1))>>
                                      ELSE <<Query(1)>>]
    /\ UNCHANGED <<inv, ct, reg, env, fq, sl>>

\* _process_query_with_tools returns (response, has_tool_call, content)
WSGenerate ==
    /\ ws.pc = "generate"
    /\ ws.gens < GenCap
    /\ \E response \in RawResponses(ws.provider) :
          ws' = IF ws.provider = "gemini" /\ GeminiIndexError(response)
                THEN WSRaise(ws, "IndexError")
                ELSE WSAfterGenerate(ws, response)
    /\ UNCHANGED <<inv, ct, reg, env, fq, sl>>

\* the provider call raises
WSGenerateFails ==
    /\ ws.pc = "generate"
    /\ ws' = WSRaise(ws, "GenerateError")
    /\ UNCHANGED <<inv, ct, reg, env, fq, sl>>

\* session.call_tool returns: the call is reported, the conversation is
\* extended and the next response is requested
WSCallToolReturns ==
    /\ ws.pc = "call_tool"
    /\ ws' = [ws EXCEPT
                !.final_text = Append(@, CallingTool(ws.content[ws.pos].name)),
                !.messages = @ \o WSToolMessages(ws),
                !.pc = "generate", !.pos = 0]
    /\ UNCHANGED <<inv, ct, reg, env, fq, sl>>

\* session.call_tool raises
WSCallToolFails ==
    /\ ws.pc = "call_tool"
    /\ ws' = WSRaise(ws, "ToolError")
    /\ UNCHANGED <<inv, ct, reg, env, fq, sl>>

InitWS ==
    /\ inv = [p \in Procs |-> Idle]
    /\ ct = CtIdle
    /\ reg = RegFresh
    /\ sl = SlIdle
    /\ fq = FqIdle
    /\ env = EnvIdle
    /\ ws \in {WSIdle(provider) : provider \in Providers}

NextWS ==
    \/ WSStart
    \/ WSListTools
    \/ WSGenerate
    \/ WSGenerateFails
    \/ WSCallToolReturns
    \/ WSCallToolFails

SpecWS == InitWS /\ [][NextWS]_vars

InitCt ==
    /\ inv = [p \in Procs |-> Idle]
    /\ ws = WSIdle("anthropic")
    /\ ct = CtIdle
    /\ reg = RegFresh
    /\ sl = SlIdle
    /\ fq = FqIdle
    /\ env = EnvIdle

NextCt ==
    \/ CtCall
    \/ CtAttemptSucceeds
    \/ CtAttemptFails
    \/ CtSleepEnds

SpecCt == InitCt /\ [][NextCt]_vars

InitReg ==
    /\ inv = [p \in Procs |-> Idle]
    /\ ws = WSIdle("anthropic")
    /\ ct = CtIdle
    /\ reg = RegFresh
    /\ sl = SlIdle
    /\ fq = FqIdle
    /\ env = EnvIdle

NextReg ==
    \/ Construct
    \/ Initialize
    \/ Connect
    \/ Cleanup

SpecReg == InitReg /\ [][NextReg]_vars

InitEnv ==
    /\ inv = [p \in Procs |-> Idle]
    /\ ws = WSIdle("anthropic")
    /\ ct = CtIdle
    /\ reg = RegFresh
    /\ sl = SlIdle
    /\ fq = FqIdle
    /\ \E host \in HostEnvs, config \in EnvConfigs :
          env = [EnvIdle EXCEPT !.host = host, !.config = config]

NextEnv == ProcessEnv

SpecEnv == InitEnv /\ [][NextEnv]_vars

InitFacade == InitReg

NextFacade ==
    \/ Construct
    \/ Initialize
    \/ Cleanup
    \/ ProcessQuery

SpecFacade == InitFacade /\ [][NextFacade]_vars

InitSlack == InitReg

NextSlack ==
    \/ SlReceive
    \/ SlHandle

SpecSlack == InitSlack /\ [][NextSlack]_vars

(* ----------------------------------------------------------------------- *)
(* Actions                                                                 *)
(* ----------------------------------------------------------------------- *)

\* process_query(query, servers) is called: awaits _prepare_tools(servers)
Start(p) ==
    /\ inv[p].pc = "idle"
    /\ inv' = Store(p, [inv[p] EXCEPT !.pc = "prepare"])

\* _prepare_tools returns: the conversation is seeded with the user query
PrepareTools(p) ==
    /\ inv[p].pc = "prepare"
    /\ inv' = Store(p, LoopHead([inv[p] EXCEPT
                                   !.messages = <<UserMsg(Query(p))>>,
                                   !.depth = 0]))

\* _generate_response returns (raw_resp, has_call, parts)
Generate(p, R) ==
    /\ inv[p].pc = "generate"
    /\ \E resp \in R : inv' = Store(p, AfterGenerate(inv[p], resp))

\* _generate_response raises
GenerateFails(p) ==
    /\ inv[p].pc = "generate"
    /\ inv' = Store(p, GenerateRaised(inv[p]))

\* s.list_tools() returns the current tool list of servers[scan]
ListTools(p) ==
    /\ inv[p].pc = "find"
    /\ \E tools \in SUBSET ToolNames :
          inv' = Store(p, AfterListTools(inv[p], tools))

\* server.call_tool(name, args) returns a result
CallToolReturns(p) ==
    /\ inv[p].pc = "call"
    /\ inv' = Store(p, AfterCallTool(inv[p]))

\* server.call_tool(name, args) raises
CallToolFails(p) ==
    /\ inv[p].pc = "call"
    /\ inv' = Store(p, Raise(inv[p], "ToolError"))

Step(p, R) ==
    /\ \/ Start(p)
       \/ PrepareTools(p)
       \/ Generate(p, R)
       \/ GenerateFails(p)
       \/ ListTools(p)
       \/ CallToolReturns(p)
       \/ CallToolFails(p)
    /\ UNCHANGED <<ws, ct, reg, env, fq, sl>>

Init ==
    /\ inv = [p \in Procs |-> Idle]
    /\ ws = WSIdle("anthropic")
    /\ ct = CtIdle
    /\ reg = RegFresh
    /\ sl = SlIdle
    /\ fq = FqIdle
    /\ env = EnvIdle

\* one invocation, any provider response
Next == Step(1, Responses)

Spec == Init /\ [][Next]_vars

\* several invocations in flight on the same agent and server list
NextConc == \E p \in Procs : Step(p, StubResponses)

SpecConc == Init /\ [][NextConc]_vars

(* ----------------------------------------------------------------------- *)
(* Properties of process_query                                             *)
(* ----------------------------------------------------------------------- *)

IsAssistant(m) == m.role = "assistant"

\* the assistant turns of a conversation, in order
AssistantTurns(messages) == SelectSeq(messages, IsAssistant)

\* number of completed generation calls of an invocation
GenCalls(r) == Len(r.hasCalls)

\* number of tool results integrated into a conversation
ToolResults(messages) ==
    IF messages = <<>> THEN 0
    ELSE Len(messages) - 1 - Len(AssistantTurns(messages))

\* every generation so far reported has_tool_call with an extractable call
AlwaysToolCall(r) ==
    /\ Len(AssistantTurns(r.messages)) = GenCalls(r)
    /\ \A i \in 1..GenCalls(r) :
          /\ r.hasCalls[i]
          /\ _extract_tool_calls(AssistantTurns(r.messages)[i].content) # <<>>

\* C1: with an adapter that always reports a tool call that resolves and
\* succeeds, process_query issues exactly MAX_DEPTH generation calls, never
\* more, and then returns the flattened text accumulated so far.
C1_RoundBound ==
    \A p \in Procs :
       LET r == inv[p]
       IN  /\ GenCalls(r) <= MAX_DEPTH
           /\ r.pc = "generate" => GenCalls(r) < MAX_DEPTH
           /\ (r.pc = "done" /\ AlwaysToolCall(r)) =>
                 /\ GenCalls(r) = MAX_DEPTH
                 /\ r.depth = MAX_DEPTH
                 /\ r.err = "none"
                 /\ r.result = _flatten_assistant_text(r.messages)

C1_Witness ==
    \E p \in Procs :
       /\ inv[p].pc = "done"
       /\ AlwaysToolCall(inv[p])
       /\ GenCalls(inv[p]) = MAX_DEPTH
       /\ inv[p].dispatched >= MAX_DEPTH

\* C2: when the first generation reports has_tool_call = false, process_query
\* has made exactly one generation call, dispatched no tool call and returned
\* the flattened text of that single assistant turn.
C2_NoToolCallOneRound ==
    \A p \in Procs :
       LET r == inv[p]
       IN  (GenCalls(r) >= 1 /\ ~r.hasCalls[1]) =>
              /\ r.pc = "done"
              /\ GenCalls(r) = 1
              /\ r.dispatched = 0
              /\ Len(r.messages) = 2
              /\ IsAssistant(r.messages[2])
              /\ r.result = _flatten_assistant_text(<<r.messages[2]>>)

C2_Witness ==
    \E p \in Procs :
       /\ inv[p].pc = "done"
       /\ GenCalls(inv[p]) = 1
       /\ ~inv[p].hasCalls[1]
       /\ inv[p].result = <<"Hello">>

\* C3: a generation that reports has_tool_call = true but yields no
\* extractable call ends process_query on that round: it is the last
\* generation, no tool is invoked after it, and the text so far is returned.
C3_EmptyExtractionTerminates ==
    \A p \in Procs :
       LET r == inv[p]
           turns == AssistantTurns(r.messages)
       IN  \A i \in 1..GenCalls(r) :
              (/\ i <= Len(turns)
               /\ r.hasCalls[i]
               /\ _extract_tool_calls(turns[i].content) = <<>>) =>
                 /\ i = GenCalls(r)
                 /\ r.pc = "done"
                 /\ r.err = "none"
                 /\ IsAssistant(r.messages[Len(r.messages)])
                 /\ r.dispatched = ToolResults(r.messages)
                 /\ r.result = _flatten_assistant_text(r.messages)

C3_Witness ==
    \E p \in Procs :
       LET r == inv[p]
       IN  /\ r.pc = "done"
           /\ GenCalls(r) = 2
           /\ r.hasCalls[2]
           /\ _extract_tool_calls(r.messages[Len(r.messages)].content) = <<>>
           /\ r.dispatched = 1

\* C4: a tool call is dispatched to the first server, in list order, whose
\* list_tools() result contains the name of the call; a server whose result
\* does not contain the name never receives the call.
C4_FirstListingServer ==
    \A p \in Procs :
       LET r == inv[p]
       IN  r.pc = "call" =>
              LET name == r.calls[r.call].name
                  k == Len(r.seen)
              IN  /\ k \in 1..Len(Servers)
                  /\ r.server = Servers[k]
                  /\ name \in r.seen[k]
                  /\ \A j \in 1..(k - 1) : name \notin r.seen[j]

C4_Witness ==
    \E p \in Procs :
       LET r == inv[p]
       IN  /\ r.pc = "call"
           /\ r.calls[r.call].name = "lookup"
           /\ r.server = "B"
           /\ r.seen[1] = {"search"}
           /\ "lookup" \in r.seen[2]

\* the scan of the current call found no server listing the name
ScanExhausted(r) ==
    /\ Len(r.seen) = Len(Servers)
    /\ r.call \in 1..Len(r.calls)
    /\ \A j \in 1..Len(r.seen) : r.calls[r.call].name \notin r.seen[j]

C5_Raised ==
    \A p \in Procs :
       LET r == inv[p]
       IN  /\ ScanExhausted(r) => (r.pc = "raised" /\ r.err = "NoServer")
           /\ r.err = "NoServer" =>
                 /\ r.pc = "raised"
                 /\ ScanExhausted(r)
                 /\ r.result = <<>>
                 /\ r.dispatched = ToolResults(r.messages)

C5_LastServerStep ==
    \A p \in Procs :
       /\ (inv[p].pc = "find" /\ inv[p].scan = Len(Servers)
              /\ inv'[p] # inv[p]) =>
             \/ inv'[p].pc = "call"
             \/ inv'[p].pc = "raised" /\ inv'[p].err = "NoServer"
       /\ inv[p].pc = "raised" => inv'[p] = inv[p]

\* C5: when no server lists the name of an extracted call, process_query
\* raises: no answer is returned, the call is not skipped, no call_tool is
\* issued for it and nothing further (generation or tool call) happens.
C5_UnknownToolRaises == []C5_Raised /\ [][C5_LastServerStep]_vars

C5_Witness ==
    \E p \in Procs :
       LET r == inv[p]
       IN  /\ r.pc = "raised"
           /\ r.err = "NoServer"
           /\ r.call = 2
           /\ r.dispatched = 1

\* the texts of the text parts of the assistant turns, in order
RECURSIVE TextPartsOnly(_)
TextPartsOnly(parts) ==
    IF Len(parts) = 0 THEN <<>>
    ELSE (IF parts[1].type = "text" THEN <<(<<parts[1].text>>)>> ELSE <<>>)
         \o TextPartsOnly(Tail(parts))

RECURSIVE AssistantTextParts(_)
AssistantTextParts(turns) ==
    IF Len(turns) = 0 THEN <<>>
    ELSE TextPartsOnly(turns[1].content) \o AssistantTextParts(Tail(turns))

\* C6: the value returned by process_query is the text parts of the assistant
\* turns joined by single newlines, tool-call parts excluded ("Hello",
\* <tool call>, "World" gives "Hello\nWorld").
C6_FlattenTextOnly ==
    \A p \in Procs :
       inv[p].pc = "done" =>
          inv[p].result =
             JoinNewline(AssistantTextParts(AssistantTurns(inv[p].messages)))

\* the results of the first n calls, in the order extracted
ResultsOf(calls, n) == [j \in 1..n |-> ToolResultMsg(calls[j])]

\* positions of the assistant turns in a conversation
AssistantAt(messages) == {i \in 1..Len(messages) : IsAssistant(messages[i])}

\* the messages that follow the assistant turn at position a, up to the next
\* assistant turn
Following(messages, a) ==
    LET later == {i \in AssistantAt(messages) : i > a}
        stop == IF later = {} THEN Len(messages) + 1
                ELSE CHOOSE i \in later : \A j \in later : i <= j
    IN  SubSeq(messages, a + 1, stop - 1)

\* C7: the assistant turn of a round is appended before any call of the round
\* is dispatched, calls are dispatched in the order extracted, each result is
\* integrated before the next dispatch, and every result of a round is
\* integrated before the next generation call.
C7_StrictSequence ==
    \A p \in Procs :
       LET r == inv[p]
           at == AssistantAt(r.messages)
           last == IF at = {} THEN 0
                   ELSE CHOOSE i \in at : \A j \in at : j <= i
       IN  /\ Cardinality(at) = GenCalls(r)
           /\ r.dispatched = ToolResults(r.messages)
                 + (IF r.pc = "call" \/ r.err = "ToolError" THEN 1 ELSE 0)
           /\ \A a \in at \ {last} :
                 LET calls == _extract_tool_calls(r.messages[a].content)
                 IN  Following(r.messages, a) = ResultsOf(calls, Len(calls))
           /\ r.pc \in {"find", "call"} =>
                 /\ last > 0
                 /\ r.calls = _extract_tool_calls(r.messages[last].content)
                 /\ r.call \in 1..Len(r.calls)
                 /\ Following(r.messages, last) = ResultsOf(r.calls, r.call - 1)
           /\ (r.pc = "generate" /\ last > 0) =>
                 LET calls == _extract_tool_calls(r.messages[last].content)
                 IN  Following(r.messages, last) = ResultsOf(calls, Len(calls))

C7_Witness ==
    \E p \in Procs :
       LET r == inv[p]
       IN  /\ r.pc = "call"
           /\ r.call = 2
           /\ GenCalls(r) = 2
           /\ Len(r.messages) = 6

\* the conversation of an invocation: its own query, one assistant turn per
\* generation it completed, one result per tool call it completed
OwnConversation(p) ==
    LET r == inv[p]
    IN  r.messages # <<>> =>
           /\ r.messages[1] = UserMsg(Query(p))
           /\ \A i \in 2..Len(r.messages) :
                 \/ IsAssistant(r.messages[i])
                 \/ r.messages[i].content[1].type = "tool_result"
           /\ Len(AssistantTurns(r.messages)) = GenCalls(r)
           /\ ToolResults(r.messages) = r.dispatched
                 - (IF r.pc = "call" \/ r.err = "ToolError" THEN 1 ELSE 0)

\* a step changes the conversation of the invocation that takes it only, and
\* only by appending to it
OwnStepsOnly ==
    \A p \in Procs :
       inv'[p].messages # inv[p].messages =>
          /\ Len(inv'[p].messages) > Len(inv[p].messages)
          /\ SubSeq(inv'[p].messages, 1, Len(inv[p].messages))
                = inv[p].messages
          /\ \A q \in Procs \ {p} : inv'[q] = inv[q]

\* C8: with several invocations in flight, each conversation holds only the
\* invocation's own query, assistant turns and tool results; no message of
\* one invocation appears in, or is removed from, the conversation of another.
C8_ConversationIsolation ==
    [](\A p \in Procs : OwnConversation(p)) /\ [][OwnStepsOnly]_vars

C8_Witness ==
    \E p, q \in Procs :
       /\ p # q
       /\ inv[p].pc = "call"
       /\ inv[q].pc = "call"
       /\ Len(inv[p].messages) = 2
       /\ Len(inv[q].messages) = 4

(* ----------------------------------------------------------------------- *)
(* Properties of process_query_with_server                                 *)
(* ----------------------------------------------------------------------- *)

\* some part of the response is a tool-invocation directive
HasDirective(response) ==
    \E c \in 1..Len(response) :
       \E i \in 1..Len(response[c]) : response[c][i].type = "tool_use"

\* C9: a query answered through the facade with a tool server performs at
\* most MAX_DEPTH generation rounds when the model requests a tool in every
\* response.
C9_FacadeRoundBound == ws.everyTool => ws.gens <= MAX_DEPTH

\* C10: the has_tool_call flag of a generation step is true iff at least one
\* part of the response is a tool-invocation directive, for both adapters.
C10_FlagIffDirective ==
    ws.gens >= 1 => (ws.has_tool_call <=> HasDirective(ws.response))

(* ----------------------------------------------------------------------- *)
(* Properties of call_tool                                                 *)
(* ----------------------------------------------------------------------- *)

\* C11: call_tool makes at most `retries` attempts: it returns the first
\* successful result (after one failure and retries = 2, on the 2nd attempt)
\* and raises the last error when every attempt failed.
C11_CallToolRetries ==
    /\ ct.attempt <= ct.retries
    /\ ct.pc = "attempt" => Len(ct.errors) = ct.attempt - 1
    /\ ct.pc = "sleep" => Len(ct.errors) = ct.attempt
    /\ ct.warnings = (IF ct.pc = "raised" THEN Len(ct.errors) - 1
                      ELSE Len(ct.errors))
    /\ ct.pc = "returned" =>
          /\ ct.attempt = Len(ct.errors) + 1
          /\ ct.raised = "none"
    /\ ct.pc = "raised" =>
          /\ ct.attempt = ct.retries
          /\ Len(ct.errors) = ct.retries
          /\ ct.raised = ct.errors[ct.retries]

C11_Witness ==
    /\ ct.pc = "returned"
    /\ ct.retries = 2
    /\ ct.attempt = 2
    /\ Len(ct.errors) = 1
    /\ ct.warnings = 1

(* ----------------------------------------------------------------------- *)
(* More properties of process_query                                        *)
(* ----------------------------------------------------------------------- *)

C12_Raised ==
    \A p \in Procs :
       LET r == inv[p]
       IN  r.err = "GenerateError" =>
              /\ r.pc = "raised"
              /\ r.result = <<>>
              /\ Len(AssistantTurns(r.messages)) = GenCalls(r)
              /\ r.dispatched = ToolResults(r.messages)

C12_FailureStep ==
    \A p \in Procs :
       /\ (inv[p].err = "none" /\ inv'[p].err = "GenerateError") =>
             /\ inv[p].pc = "generate"
             /\ inv'[p].pc = "raised"
             /\ inv'[p].messages = inv[p].messages
             /\ inv'[p].hasCalls = inv[p].hasCalls
             /\ inv'[p].dispatched = inv[p].dispatched
       /\ inv[p].err = "GenerateError" => inv'[p] = inv[p]

\* C12: when a generation call raises, process_query raises at once: the
\* generation is not retried, no tool call is dispatched afterwards and no
\* answer is returned.
C12_GenerateErrorPropagates == []C12_Raised /\ [][C12_FailureStep]_vars

C12_Witness ==
    \E p \in Procs :
       /\ inv[p].pc = "raised"
       /\ inv[p].err = "GenerateError"
       /\ GenCalls(inv[p]) = 2
       /\ inv[p].dispatched = 3

C13_Counts ==
    \A p \in Procs :
       Len(AssistantTurns(inv[p].messages)) = GenCalls(inv[p])

C13_GenerationStep ==
    \A p \in Procs :
       GenCalls(inv'[p]) # GenCalls(inv[p]) =>
          LET n == Len(inv[p].messages)
              turn == inv'[p].messages[n + 1]
          IN  /\ GenCalls(inv'[p]) = GenCalls(inv[p]) + 1
              /\ Len(inv'[p].messages) = n + 1
              /\ SubSeq(inv'[p].messages, 1, n) = inv[p].messages
              /\ IsAssistant(turn)
              /\ turn.content \in PartLists
              /\ inv'[p].pc \in {"find", "call"} =>
                    inv'[p].calls = _extract_tool_calls(turn.content)

\* C13: every generation call that returns is followed at once by the append
\* of an assistant message with its parts, tool calls or not, so the number
\* of assistant messages always equals the number of completed generations.
C13_AssistantTurnPerGeneration ==
    []C13_Counts /\ [][C13_GenerationStep]_vars

C13_Witness ==
    \E p \in Procs :
       LET r == inv[p]
       IN  /\ r.pc = "find"
           /\ GenCalls(r) = 1
           /\ Len(r.messages) = 2
           /\ IsAssistant(r.messages[2])
           /\ _extract_tool_calls(r.messages[2].content) # <<>>

(* ----------------------------------------------------------------------- *)
(* Properties of MCPClient construction and ServerConnectionManager        *)
(* ----------------------------------------------------------------------- *)

\* get_server_names(), as a set
ServerNames(r) == {r.servers[i] : i \in 1..Len(r.servers)}

\* C14: initialize() attempts every configured server exactly once, a failure
\* does not stop the attempts after it, and afterwards the connected names
\* are the configured servers whose connection succeeded.
C14_InitializeAttemptsAll ==
    [][(~reg.initialized /\ reg'.initialized) =>
          LET n == Len(reg.server_config)
              k == Len(reg.attempts)
              ok == {i \in 1..n :
                       reg'.attempts[k + i].outcome = "connected"}
          IN  /\ Len(reg'.attempts) = k + n
              /\ \A i \in 1..n :
                    reg'.attempts[k + i].name = reg.server_config[i].name
              /\ reg'.error = "none"
              /\ ServerNames(reg') =
                    ServerNames(reg) \cup {reg.server_config[i].name : i \in ok}
              /\ reg.servers = <<>> =>
                    ServerNames(reg') = {reg.server_config[i].name : i \in ok}
    ]_vars

C14_Witness ==
    /\ reg.initialized
    /\ reg.connects = 0
    /\ Len(reg.attempts) = 2
    /\ reg.attempts[1].outcome = "ConnectError"
    /\ reg.attempts[2].outcome = "connected"
    /\ reg.servers = <<"B">>

\* C15: a malformed, unreadable or missing configuration file makes the
\* construction fail; the client is never built with an empty server set.
C15_BadConfigFails ==
    reg.config_file \in {"bad_json", "unreadable", "missing"} =>
       reg.client # "built"

\* C16: when a stdio connect fails after its transport was opened, the
\* resources acquired for that server are released at the failure; nothing
\* of a server that is not connected stays held by the registry.
C16_FailedConnectReleases ==
    \A i \in 1..Len(reg.exit_stack) :
       InServers(reg, reg.resources[reg.exit_stack[i]].server)

\* number of times a resource was released
Releases(r, id) == Cardinality({i \in 1..Len(r.released) : r.released[i] = id})

C17_AtMostOnce ==
    \A id \in 1..Len(reg.resources) :
       /\ Releases(reg, id) <= 1
       /\ Releases(reg, id) = 1
             <=> ~(\E i \in 1..Len(reg.exit_stack) : reg.exit_stack[i] = id)

C17_CleanupStep ==
    reg'.cleanups # reg.cleanups =>
       /\ \A id \in 1..Len(reg'.resources) : Releases(reg', id) = 1
       /\ reg'.exit_stack = <<>>
       /\ reg.exit_stack = <<>> =>
             (reg'.released = reg.released /\ reg'.error = "none")

\* C17: over connects, failed or not, followed by cleanup() calls, every
\* acquired resource is released exactly once; a second cleanup() releases
\* nothing and does not raise.
C17_ReleasedExactlyOnce == []C17_AtMostOnce /\ [][C17_CleanupStep]_vars

C17_Witness ==
    /\ reg.cleanups = 2
    /\ Len(reg.attempts) = 2
    /\ reg.attempts[1].outcome = "connected"
    /\ reg.attempts[2].outcome = "ConnectError"
    /\ reg.attempts[2].acquired = 1
    /\ Len(reg.released) = 3

\* C18: cleanup tears the acquired resources down in reverse order of
\* acquisition, and runs every teardown even when an earlier one raises.
C18_ReverseCollectAndContinue ==
    [][reg'.cleanups # reg.cleanups =>
          LET k == Len(reg.released)
              n == Len(reg.exit_stack)
          IN  /\ Len(reg'.released) = k + n
              /\ \A i \in 1..n :
                    reg'.released[k + i] = reg.exit_stack[n + 1 - i]
              /\ \A i, j \in 1..n :
                    i < j => reg'.released[k + i] > reg'.released[k + j]
    ]_vars

C18_Witness ==
    /\ reg.cleanups = 1
    /\ reg.error = "TeardownError"
    /\ reg.raised_at = 1
    /\ Len(reg.released) = 4
    /\ reg.exit_stack = <<>>

\* C19: constructing an adapter for an unsupported provider (unknown, or
\* the openai stub) fails; no adapter is returned and the client is not
\* built.
C19_UnsupportedProviderFails ==
    reg.client # "none" =>
       /\ Lower(reg.provider) \notin {"anthropic", "gemini"} =>
             /\ reg.client = "failed"
             /\ reg.agent = "none"
             /\ reg.ctor_error =
                   (IF Lower(reg.provider) = "openai"
                    THEN "NotImplementedError" ELSE "ValueError")
       /\ reg.client = "built" =>
             /\ Lower(reg.provider) \in {"anthropic", "gemini"}
             /\ reg.agent \in {"AnthropicAgentManager", "GeminiAgentManager"}
       /\ reg.client = "failed" =>
             (reg.server_config = <<>> /\ reg.attempts = <<>>)

C19_Witness ==
    /\ reg.client = "failed"
    /\ reg.provider = "OpenAI"
    /\ reg.ctor_error = "NotImplementedError"
    /\ reg.agent = "none"

\* C20: a connect with transport "http" fails with a not-implemented error
\* and one with another transport than "stdio" or "http" with an
\* unsupported-transport error; neither registers a session nor spawns a
\* stdio process.
C20_UnsupportedTransportFails ==
    \A i \in 1..Len(reg.attempts) :
       LET a == reg.attempts[i]
       IN  /\ a.transport = "http" =>
                 (a.outcome = "NotImplementedError"
                    /\ a.acquired = 0 /\ ~a.registered)
           /\ a.transport \notin {"stdio", "http", "absent"} =>
                 (a.outcome = "ValueError"
                    /\ a.acquired = 0 /\ ~a.registered)
           /\ (i = Len(reg.attempts)
                 /\ reg.error \in {"NotImplementedError", "ValueError"}) =>
                 (reg.error = a.outcome /\ a.transport \in {"http", "sse"})

C20_Witness ==
    /\ reg.connects = 1
    /\ reg.cleanups = 0
    /\ reg.error = "NotImplementedError"
    /\ Len(reg.attempts) = 1
    /\ reg.attempts[1].transport = "http"
    /\ reg.servers = <<>>
    /\ reg.resources = <<>>

(* ----------------------------------------------------------------------- *)
(* Properties of _process_env_variables                                    *)
(* ----------------------------------------------------------------------- *)

\* the references $NAME and ${NAME} to a host variable
DollarRef(name) == <<"$">> \o name

BracedRef(name) == <<"$", "{">> \o name \o <<"}">>

\* C21: every key of the env config is kept; a value $NAME or ${NAME} becomes
\* the host's value of NAME when NAME is set and stays the literal, with a
\* warning, when it is not; a value not starting with $ is unchanged.
C21_EnvResolution ==
    (env.pc = "done" /\ env.config.given) =>
       /\ env.result.given
       /\ DOMAIN env.result.map = DOMAIN env.config.map
       /\ \A key \in DOMAIN env.config.map :
             LET value == env.config.map[key]
                 out == env.result.map[key]
             IN  /\ \A name \in HostNames :
                       (value.kind = "str"
                          /\ value.s \in {DollarRef(name), BracedRef(name)}) =>
                          IF name \in DOMAIN env.host
                          THEN out = Str(env.host[name]) /\ key \notin env.warnings
                          ELSE out = value /\ key \in env.warnings
                 /\ (value.kind # "str" \/ ~StartsWith(value.s, <<"$">>)) =>
                       (out = value /\ key \notin env.warnings)

C21_Witness ==
    /\ env.pc = "done"
    /\ DOMAIN env.config.map = {"TOKEN", "PATH"}
    /\ env.config.map["TOKEN"] = Str(BracedRef(<<"A">>))
    /\ env.config.map["PATH"] = Str(DollarRef(<<"A", "A">>))
    /\ DOMAIN env.host = {<<"A">>}
    /\ env.result.map["TOKEN"] = Str(<<"s", "e", "c">>)
    /\ env.result.map["PATH"] = Str(DollarRef(<<"A", "A">>))
    /\ env.warnings = {"PATH"}

(* ----------------------------------------------------------------------- *)
(* More properties of the registry                                         *)
(* ----------------------------------------------------------------------- *)

ConfiguredNames(r) == {r.server_config[i].name : i \in 1..Len(r.server_config)}

\* the registry was built by loading the configuration and connecting all
LoadedAndConnectedAll(r) ==
    r.initialized /\ r.connects = 0 /\ r.cleanups = 0

\* C22: server names are unique, and after the configuration load and the
\* connect-all the registry holds no session when the load failed and one
\* session per configured entry otherwise.
C22_OneSessionPerEntry ==
    /\ \A i, j \in 1..Len(reg.servers) :
          reg.servers[i] = reg.servers[j] => i = j
    /\ LoadedAndConnectedAll(reg) =>
          IF reg.config_file # "valid" THEN reg.servers = <<>>
          ELSE /\ Len(reg.servers) = Len(reg.server_config)
               /\ ServerNames(reg) = ConfiguredNames(reg)

\* C27: when cleanup() has completed the registry reports no connected
\* server: get_server_names() is empty and no name has a session.
C27_NoServersAfterCleanup ==
    [][reg'.cleanups # reg.cleanups =>
          /\ get_server_names(reg') = <<>>
          /\ \A i \in 1..NumConfigured : ~get_server_session(reg', ConfigName(i))
    ]_vars

\* C29: a connect over stdio for a name that is already registered enters
\* nothing on the exit stack and leaves the servers and the keywords
\* unchanged, so a name is registered at most once.
C29_ConnectIdempotent ==
    [][reg'.connects # reg.connects =>
          LET a == reg'.attempts[Len(reg'.attempts)]
          IN  /\ (a.name \in ServerNames(reg) /\ a.transport \in {"stdio", "absent"}) =>
                    /\ a.outcome = "already"
                    /\ reg'.servers = reg.servers
                    /\ reg'.server_keywords = reg.server_keywords
                    /\ reg'.resources = reg.resources
                    /\ reg'.exit_stack = reg.exit_stack
                    /\ reg'.error = "none"
              /\ Cardinality({i \in 1..Len(reg'.attempts) :
                                reg'.attempts[i].name = a.name
                                   /\ reg'.attempts[i].registered}) <= 1
              /\ Cardinality({i \in 1..Len(reg'.servers) :
                                reg'.servers[i] = a.name}) <= 1
    ]_vars

C29_Witness ==
    /\ reg.connects = 1
    /\ reg.cleanups = 0
    /\ Len(reg.attempts) = 2
    /\ reg.attempts[1].outcome = "connected"
    /\ reg.attempts[2].outcome = "already"
    /\ reg.attempts[2].name = "A"
    /\ reg.servers = <<"A">>
    /\ reg.server_keywords = <<[name |-> "A", keywords |-> <<"a", "lookup", "alpha">>]>>
    /\ Len(reg.exit_stack) = 2

(* ----------------------------------------------------------------------- *)
(* Properties of MCPClient.process_query                                   *)
(* ----------------------------------------------------------------------- *)

\* C28: process_query with an explicit server_name that is not connected,
\* while some server is, answers "Server ... not found" with the list of the
\* connected servers; it delegates to no generation or tool call and leaves
\* the registry unchanged.
C28_UnknownServerNotFound ==
    [][(fq'.calls # fq.calls
          /\ fq'.server_name # "None"
          /\ fq'.server_name \notin ServerNames(reg)
          /\ reg.servers # <<>>) =>
          /\ fq'.route = "not_found"
          /\ fq'.server = fq'.server_name
          /\ fq'.available = reg.servers
          /\ fq'.delegated = "none"
          /\ reg' = reg
    ]_vars

C28_Witness ==
    /\ fq.calls = 1
    /\ fq.server_name = "C"
    /\ fq.query = {}
    /\ reg.servers = <<"A", "B">>
    /\ fq.route = "not_found"
    /\ fq.available = <<"A", "B">>
    /\ fq.delegated = "none"

(* ----------------------------------------------------------------------- *)
(* More properties of process_query_with_server                            *)
(* ----------------------------------------------------------------------- *)

\* the text is part of the returned string
InAnswer(text, answer) == \E k \in 1..Len(answer) : answer[k] = text

\* C23: the string returned by process_query_with_server contains the text
\* parts of the model's responses; the text of the final response, the one
\* that ends the loop, is part of the answer also after a tool call.
C23_FinalTextInAnswer ==
    ws.pc = "done" =>
       \A i \in 1..Len(ws.content) :
          ws.content[i].type = "text" => InAnswer(ws.content[i].text, ws.result)

\* index of the last assistant message appended by the loop, 1 when none
LastAssistantAt(messages) ==
    LET at == {k \in 2..Len(messages) : messages[k].role = "assistant"}
    IN  IF at = {} THEN 1 ELSE CHOOSE k \in at : \A j \in at : j <= k

\* the directive at position i of the last response has a tool_result after
\* the assistant message of that response
HasResultFor(messages, i) ==
    \E k \in (LastAssistantAt(messages) + 1)..Len(messages) :
       /\ messages[k].role = "user"
       /\ messages[k].content[1].type = "tool_result"
       /\ messages[k].content[1].tool_use_id = i

\* C24: when the next response is requested, every tool directive of the
\* previous response was executed and its tool_result appended.
C24_EveryDirectiveExecuted ==
    (ws.pc = "generate" /\ ws.gens > 0) =>
       \A i \in 1..Len(ws.content) :
          ws.content[i].type = "tool_use" => HasResultFor(ws.messages, i)

\* C25: the outer loop never iterates without progress: while has_tool_call
\* is set the scanned parts hold a tool directive, for both providers.
C25_LoopProgress ==
    /\ ws.pc # "spin"
    /\ (ws.has_tool_call /\ ws.pc = "call_tool") =>
          \E i \in 1..Len(ws.content) : ws.content[i].type = "tool_use"

\* C26: every tool result integrated into the conversation is seen by a
\* later generation call: process_query never returns with a tool result as
\* the last message, also in the last round allowed by MAX_DEPTH.
C26_ResultsSeenByModel ==
    \A p \in Procs :
       inv[p].pc = "done" =>
          IsAssistant(inv[p].messages[Len(inv[p].messages)])

(* ----------------------------------------------------------------------- *)
(* Properties of SlackEventHandler.handle_event                            *)
(* ----------------------------------------------------------------------- *)

\* the request carries both headers, a timestamp at most MaxAge seconds
\* off and the signature of its timestamp and body under the signing secret
Authentic(request) ==
    /\ request.has_timestamp /\ request.has_signature
    /\ request.timestamp.numeric
    /\ Abs(CurrentTimestamp - request.timestamp.value) <= MaxAge
    /\ request.signature
          = Signature(SigningSecret, request.timestamp, request.body)

\* a header is missing, the timestamp is more than MaxAge seconds off, or
\* the signature is not the one of the request
VerificationFails(request) ==
    \/ ~request.has_timestamp \/ ~request.has_signature
    \/ request.timestamp.numeric
          /\ Abs(CurrentTimestamp - request.timestamp.value) > MaxAge
    \/ request.signature
          # Signature(SigningSecret, request.timestamp, request.body)

\* C30: handle_event replies to a challenge, calls the agent or posts to
\* Slack only for a request that verify_slack_request accepted; when the
\* verification fails it raises HTTP 401 "Invalid request signature" and
\* makes no agent call and no Slack post.
C30_VerifiedBeforeActing ==
    sl.pc = "done" =>
       /\ (sl.reply # "none" \/ sl.agent_calls > 0 \/ sl.posts > 0) =>
             (sl.verified = "True" /\ Authentic(sl.request))
       /\ VerificationFails(sl.request) =>
             /\ sl.status = "401"
             /\ sl.detail = "Invalid request signature"
             /\ sl.agent_calls = 0
             /\ sl.posts = 0

====
